---- MODULE Spec2Model ----
(***************************************************************************)
(* Falling-glyph engine (src/src/game.rs): Viewport, diff_viewports,       *)
(* GlyphStack and Game, as a state machine.                                *)
(*                                                                         *)
(* Time is kept per trail as `elapsed`, the value of                       *)
(* last_update.elapsed() saturated at update_interval (the gate only       *)
(* compares the two).  Random draws are inputs of the actions.             *)
(***************************************************************************)
EXTENDS Integers, Sequences, FiniteSets, TLC

\* ------------------------------------------------------------------ bounds
MaxWidth ==
    4
MaxHeight ==
    4
MaxStacks ==
    1
MaxInterval ==
    2
NumChars ==
    2
\* two trails at a time: the trails alive together, the width of the viewport
MaxPair ==
    2
PairWidth ==
    2
PairHeight ==
    3
\* GlyphStack on its own: heights offered to GlyphStack::new, update() calls
\* that pass the gate
TrailMaxHeight ==
    6
MaxAdvances ==
    6
\* density on its own: the longest run of equal adjustments that is counted
MaxRun ==
    10
\* diff_viewports on its own: the largest width * height
DiffMaxArea ==
    4
\* Viewport on its own: the set() calls made on one Viewport
MaxWrites ==
    2

\* ------------------------------------------------------- program constants
\* u16 / i16 arithmetic (width, height, x: u16; min_y, max_y: i16)
TwoPow16 ==
    65536
TwoPow15 ==
    32768
\* density: f64 kept in tenths; Game::new sets 0.5, the clamps are 0.1 and 1.0
InitialDensity ==
    5
MinDensity ==
    1
MaxDensity ==
    10

\* viewport sizes offered to Game::new and resize: the empty viewport, the
\* smallest sizes on which the spawn draws are made from an empty range
\* (width 1, height 2), and the largest size of the model
Widths ==
    {0, 1, MaxWidth}
Heights ==
    {0, 2, MaxHeight}
Chars == 1..NumChars
Intervals == 1..MaxInterval
Colors == {"White", "Green", "DarkGreen"}

\* Option<Cell>: None is the empty sequence, Some(c) the one-element sequence
None == <<>>
Some(c) == <<c>>
Cell(ch, color) == [ch |-> ch, color |-> color]
Glyph(value, color) == [value |-> value, color |-> color]

Min(a, b) == IF a < b THEN a ELSE b
Max(a, b) == IF a > b THEN a ELSE b

\* `as i16` of a u16 value
AsI16(v) ==
    IF v >= TwoPow15 THEN v - TwoPow16 ELSE v

\* I16Inc losing the increment
I16Keep(v) ==
    v

\* i16 += 1 (wrapping, as in a release build)
I16Inc(v) ==
    IF v + 1 >= TwoPow15 THEN v + 1 - TwoPow16 ELSE v + 1

\* ---------------------------------------------------------------- Viewport
\* grid is a Vec of (width * height) as usize cells, the product taken in u16
\* (wrapping, as in a release build; a debug build panics on the overflow)
ViewportNew(w, h) ==
    [width |-> w, height |-> h,
     grid |-> [i \in 1..((w * h) % TwoPow16) |-> None]]

GridIndex(v, x, y) ==
    (y * v.width + x) % TwoPow16

ViewportGet(v, x, y) ==
    IF x < v.width /\ y < v.height
    THEN LET i == GridIndex(v, x, y)
         IN  IF i < Len(v.grid) THEN v.grid[i + 1] ELSE None
    ELSE None

\* grid[i] = Some(cell) indexes out of bounds (a panic) when i >= grid.len()
ViewportSetFaults(v, x, y) ==
    x < v.width /\ y < v.height /\ GridIndex(v, x, y) >= Len(v.grid)

ViewportSet(v, x, y, cell) ==
    IF x < v.width /\ y < v.height /\ GridIndex(v, x, y) < Len(v.grid)
    THEN [v EXCEPT !.grid[GridIndex(v, x, y) + 1] = Some(cell)]
    ELSE v

\* ------------------------------------------------------------------ Change
ChangeUpdate(x, y, ch, color) == <<"Update", x, y, ch, color>>
ChangeRemove(x, y) == <<"Remove", x, y>>

\* DiffCell comparing only whether a cell is present
DiffCellPresenceOnly(o, n, x, y) ==
    LET old_cell == ViewportGet(o, x, y)
        new_cell == ViewportGet(n, x, y)
    IN  IF (old_cell = None) # (new_cell = None)
        THEN IF new_cell # None
             THEN <<ChangeUpdate(x, y, new_cell[1].ch, new_cell[1].color)>>
             ELSE <<ChangeRemove(x, y)>>
        ELSE <<>>

\* DiffCell reporting (y, x) for (x, y)
DiffCellSwapped(o, n, x, y) ==
    LET old_cell == ViewportGet(o, x, y)
        new_cell == ViewportGet(n, x, y)
    IN  IF old_cell # new_cell
        THEN IF new_cell # None
             THEN <<ChangeUpdate(y, x, new_cell[1].ch, new_cell[1].color)>>
             ELSE <<ChangeRemove(y, x)>>
        ELSE <<>>

\* DiffCell reporting every cell the new snapshot holds, changed or not
DiffCellAlways(o, n, x, y) ==
    LET old_cell == ViewportGet(o, x, y)
        new_cell == ViewportGet(n, x, y)
    IN  IF new_cell # None
        THEN <<ChangeUpdate(x, y, new_cell[1].ch, new_cell[1].color)>>
        ELSE IF old_cell # None THEN <<ChangeRemove(x, y)>> ELSE <<>>

\* one iteration of the inner loop body, for the k-th coordinate in scan order
DiffCell(o, n, x, y) ==
    LET old_cell == ViewportGet(o, x, y)
        new_cell == ViewportGet(n, x, y)
    IN  IF old_cell # new_cell
        THEN IF new_cell # None
             THEN <<ChangeUpdate(x, y, new_cell[1].ch, new_cell[1].color)>>
             ELSE <<ChangeRemove(x, y)>>
        ELSE <<>>

RECURSIVE DiffFrom(_, _, _)
\* for y in 0..new.height { for x in 0..new.width { ... } }, k = y * width + x
DiffFrom(o, n, k) ==
    IF k >= n.width * n.height
    THEN <<>>
    ELSE DiffCell(o, n, k % n.width, k \div n.width)
           \o DiffFrom(o, n, k + 1)

diff_viewports(o, n) ==
    DiffFrom(o, n, 0)

\* -------------------------------------------------------------- GlyphStack
\* rng.gen_range(1..height * 3 / 4), the product taken in u16; an empty range
\* panics
LengthRange(h) ==
    1..((((h * 3) % TwoPow16) \div 4) - 1)

GlyphStackNew(x, length, interval, ch) ==
    [x |-> x, min_y |-> 0, max_y |-> 0,
     stack |-> <<Glyph(ch, "White")>>,
     length |-> length,
     elapsed |-> 0,
     update_interval |-> interval]

\* GatePassed without the comparison
GatePassedAlways(s) ==
    TRUE

\* self.last_update.elapsed() >= self.update_interval
GatePassed(s) ==
    s.elapsed >= s.update_interval

\* the glyph count once the push and the conditional pop have run
LenAfterAdvance(s) ==
    IF Len(s.stack) + 1 > s.length THEN Len(s.stack) ELSE Len(s.stack) + 1

\* the random draws one update() makes: head glyph, flicker index (-1: the 5%
\* draw failed or was not made), flicker glyph
NoFlicker(head) == [head |-> head, fi |-> -1, fc |-> 1]
Draws(s) ==
    IF ~GatePassed(s)
    THEN {NoFlicker(1)}
    ELSE {NoFlicker(h) : h \in Chars}
           \cup (IF LenAfterAdvance(s) > 1
                 THEN {[head |-> h, fi |-> i, fc |-> c] :
                          h \in Chars, i \in 0..(LenAfterAdvance(s) - 1), c \in Chars}
                 ELSE {})

PushFront(s, r) ==
    <<Glyph(r.head, "White")>> \o s.stack

RecolorPrior(st) ==
    IF Len(st) > 1 THEN [st EXCEPT ![2].color = "Green"] ELSE st

\* PopsBack letting the stack grow one glyph too long
PopsBackLate(s, st) ==
    Len(st) > s.length + 1

PopsBack(s, st) ==
    Len(st) > s.length

\* PopBack leaving the tail glyph in place
PopBackKeepsTail(s, st) ==
    st

PopBack(s, st) ==
    IF PopsBack(s, st) THEN SubSeq(st, 1, Len(st) - 1) ELSE st

DimMiddle(st) ==
    IF Len(st) > 2 /\ st[(Len(st) \div 2) + 1].color = "Green"
    THEN [st EXCEPT ![(Len(st) \div 2) + 1].color = "DarkGreen"]
    ELSE st

Flicker(st, r) ==
    IF Len(st) > 1 /\ r.fi >= 0 /\ r.fi < Len(st)
    THEN [st EXCEPT ![r.fi + 1].value = r.fc]
    ELSE st

GlyphStackUpdate(s, r) ==
    IF GatePassed(s)
    THEN LET pushed == RecolorPrior(PushFront(s, r))
             popped == PopBack(s, pushed)
         IN  [s EXCEPT !.elapsed = 0,
                       !.stack = Flicker(DimMiddle(popped), r),
                       !.min_y = IF PopsBack(s, pushed) THEN I16Inc(@) ELSE @,
                       !.max_y = I16Inc(@)]
    ELSE s

\* time passing by dt units, seen through last_update.elapsed()
Age(s, dt) ==
    [s EXCEPT !.elapsed = Min(@ + dt, s.update_interval)]

\* -------------------------------------------------------------------- Game
VARIABLES
    width,          \* Game.width
    height,         \* Game.height
    stacks,         \* Game.stacks, in Vec order
    current_view,   \* Game.current_view
    density,        \* Game.density, in tenths
    debug_info,     \* Game.debug_info: stacks_per_update, glyphs_per_update
    changes,        \* the Vec<Change> the last update_and_get_changes returned
    prev_view,      \* the snapshot that was current when that call began
    dropped,        \* the trails the retain() of the last update or resize removed
    last,           \* the call that built current_view: new, resize or update
    prev_last,      \* the value of `last` when that call began
    advanced,       \* the number of trails whose update() passed the gate in it
    fault,          \* "none", or the place where a panic ended the program
    \* the terminal the driver draws on (src/src/main.rs)
    screen,         \* what each terminal cell shows: None (blank) or Some(Cell)
    \* GlyphStack on its own
    trail,          \* a GlyphStack
    trail_before,   \* None, or Some(the trail as the last update() call found it)
    advances,       \* the number of update() calls that passed the gate
    \* density adjustments on their own
    run,            \* the current run of equal adjustments: kind, start, count
    \* diff_viewports on its own
    old,            \* first argument
    new,            \* second argument
    out,            \* None, or Some(the Vec<Change> returned)
    \* Viewport on its own
    view,           \* a Viewport
    writes,         \* the set() calls made on it so far: <<x, y, cell>>
    view_fault      \* TRUE once a set() call has panicked

game == <<width, height, stacks, current_view, density, debug_info, changes,
          prev_view, dropped, last, prev_last, advanced, fault>>
trailvars == <<trail, trail_before, advances>>
diffvars == <<old, new, out>>
viewvars == <<view, writes, view_fault>>
vars == <<game, screen, trailvars, run, diffvars, viewvars>>


\* IncreaseDensityValue without the clamp
IncreaseUnclamped(d) ==
    d + 1

IncreaseDensityValue(d) ==
    Min(d + 1, MaxDensity)

DecreaseDensityValue(d) ==
    Max(d - 1, MinDensity)

\* SpawnColumns without the doubling
SpawnColumnsDense(w) ==
    0..((w \div 2) - 1)

\* rng.gen_range(0..self.width / 2) * 2: empty range panics
SpawnColumns(w) ==
    {2 * k : k \in 0..((w \div 2) - 1)}

SpawnFaults(w, h) ==
    SpawnColumns(w) = {} \/ LengthRange(h) = {}

\* the stacks a tick may push: none, or one GlyphStack::new(x, height)
Spawned(spawn, w, h) ==
    IF spawn
    THEN {<<GlyphStackNew(x, len, iv, ch)>> :
             x \in SpawnColumns(w), len \in LengthRange(h),
             iv \in Intervals, ch \in Chars}
    ELSE {<<>>}

RECURSIVE AllDraws(_)
\* one set of draws per stack, in Vec order
AllDraws(ss) ==
    IF ss = <<>>
    THEN {<<>>}
    ELSE {<<r>> \o rest : r \in Draws(Head(ss)), rest \in AllDraws(Tail(ss))}

UpdateAll(ss, rs) ==
    [i \in 1..Len(ss) |-> GlyphStackUpdate(ss[i], rs[i])]

\* after_len > before_len, counted over the update loop
GlyphsThisUpdate(ss, upd) ==
    Cardinality({i \in 1..Len(ss) : Len(upd[i].stack) > Len(ss[i].stack)})

\* InsideViewport keeping a trail one row longer
InsideViewportLate(s, h) ==
    s.min_y <= AsI16(h)

\* retain(|s| s.min_y < self.height as i16)
InsideViewport(s, h) ==
    s.min_y < AsI16(h)

RetainTick(ss, h) ==
    SelectSeq(ss, LAMBDA s : InsideViewport(s, h))

\* RetainResize that forgets the column test
RetainResizeRowsOnly(ss, w, h) ==
    SelectSeq(ss, LAMBDA s : s.min_y < AsI16(h))

\* retain(|s| s.x < width && s.min_y < height as i16)
RetainResize(ss, w, h) ==
    SelectSeq(ss, LAMBDA s : s.x < w /\ s.min_y < AsI16(h))

\* let y = stack.max_y - i as i16; if y >= 0 && y < self.height as i16 { set }
GlyphRow(s, i) ==
    s.max_y - i

RowVisible(y, h) ==
    y >= 0 /\ y < AsI16(h)

RECURSIVE RenderGlyphs(_, _, _, _)
RenderGlyphs(v, s, i, h) ==
    IF i >= Len(s.stack)
    THEN v
    ELSE RenderGlyphs(
           IF RowVisible(GlyphRow(s, i), h)
           THEN ViewportSet(v, s.x, GlyphRow(s, i),
                            Cell(s.stack[i + 1].value, s.stack[i + 1].color))
           ELSE v,
           s, i + 1, h)

RECURSIVE RenderStacksBackwards(_, _, _)
\* RenderStacks drawing the trails from the last to the first
RenderStacksBackwards(v, ss, h) ==
    IF ss = <<>>
    THEN v
    ELSE RenderStacksBackwards(RenderGlyphs(v, ss[Len(ss)], 0, h),
                               SubSeq(ss, 1, Len(ss) - 1), h)

RECURSIVE RenderStacks(_, _, _)
RenderStacks(v, ss, h) ==
    IF ss = <<>>
    THEN v
    ELSE RenderStacks(RenderGlyphs(v, Head(ss), 0, h), Tail(ss), h)

NextView(ss, w, h) ==
    RenderStacks(ViewportNew(w, h), ss, h)

RenderFaults(ss, w, h) ==
    \E k \in 1..Len(ss) : \E i \in 0..(Len(ss[k].stack) - 1) :
        /\ RowVisible(GlyphRow(ss[k], i), h)
        /\ ViewportSetFaults(ViewportNew(w, h), ss[k].x, GlyphRow(ss[k], i))

\* let changes = diff_viewports(&self.current_view, &next_view);
TickChanges(cur, next) ==
    diff_viewports(cur, next)

\* SwapView that leaves the old snapshot in place
KeepView(cur, next) ==
    cur

\* the trails of the update loop whose update() passes the gate (each pushes
\* one new head glyph)
Advanced(ss) ==
    Cardinality({i \in 1..Len(ss) : GatePassed(ss[i])})

\* ------------------------------------------------- the driver (src/src/main.rs)
\* the terminal after Clear(ClearType::All): w columns and h rows of blanks
ScreenBlank(w, h) ==
    [p \in (0..(w - 1)) \X (0..(h - 1)) |-> None]

\* ApplyChange leaving the old glyph on the screen when a cell is removed
ApplyChangeNoRemove(scr, c) ==
    IF c[1] = "Update" /\ <<c[2], c[3]>> \in DOMAIN scr
    THEN [scr EXCEPT ![<<c[2], c[3]>>] = Some(Cell(c[4], c[5]))]
    ELSE scr

\* one arm of `match change` (debug overlay off: y_offset = 0): MoveTo(x, y),
\* then Print(ch) in the colour, or Print(' ')
ApplyChange(scr, c) ==
    IF <<c[2], c[3]>> \in DOMAIN scr
    THEN [scr EXCEPT ![<<c[2], c[3]>>] =
             IF c[1] = "Update" THEN Some(Cell(c[4], c[5])) ELSE None]
    ELSE scr

RECURSIVE ApplyChanges(_, _)
\* for change in changes { ... }
ApplyChanges(scr, cs) ==
    IF cs = <<>>
    THEN scr
    ELSE ApplyChanges(ApplyChange(scr, Head(cs)), Tail(cs))

\* self.current_view = next_view;
SwapView(cur, next) ==
    next

\* Game::new(w, h)
GameNew(w, h) ==
    /\ width = w
    /\ height = h
    /\ stacks = <<>>
    /\ current_view = ViewportNew(width, height)
    /\ density = InitialDensity
    /\ debug_info = [stacks_per_update |-> 0, glyphs_per_update |-> 0]
    /\ changes = <<>>
    /\ prev_view = current_view
    /\ dropped = <<>>
    /\ last = "new"
    /\ prev_last = "new"
    /\ advanced = 0
    /\ fault = "none"

\* the values the variables of the other specifications rest at
TrailIdle ==
    /\ trail = GlyphStackNew(0, 1, 1, 1)
    /\ trail_before = None
    /\ advances = 0

RunIdle ==
    run = [kind |-> "none", start |-> InitialDensity, count |-> 0]

DiffIdle ==
    /\ old = ViewportNew(0, 0)
    /\ new = ViewportNew(0, 0)
    /\ out = None

ViewIdle ==
    /\ view = ViewportNew(0, 0)
    /\ writes = <<>>
    /\ view_fault = FALSE

\* main(): Clear(ClearType::All), then Game::new(width, height) with the size
\* of the terminal
ScreenInit ==
    screen = ScreenBlank(width, height)

Init ==
    /\ \E w \in Widths, h \in Heights : GameNew(w, h)
    /\ ScreenInit
    /\ TrailIdle
    /\ RunIdle
    /\ DiffIdle
    /\ ViewIdle

Panic(where) ==
    /\ fault' = where
    /\ UNCHANGED <<width, height, stacks, current_view, density, debug_info,
                   changes, prev_view, dropped, last, prev_last, advanced>>

\* the stacks the update loop runs over: `late` is the time that passes between
\* GlyphStack::new and the update loop of the same tick
LoopStacks(pushed, late) ==
    stacks \o [i \in 1..Len(pushed) |-> Age(pushed[i], late)]

TickCompletes(pushed, late, rs) ==
    LET ss       == LoopStacks(pushed, late)
        upd      == UpdateAll(ss, rs)
        kept     == RetainTick(upd, height)
        nextview == NextView(kept, width, height)
    IN  IF RenderFaults(kept, width, height)
        THEN Panic("render")
        ELSE /\ stacks' = kept
             /\ dropped' = SelectSeq(upd, LAMBDA s : ~InsideViewport(s, height))
             /\ changes' = TickChanges(current_view, nextview)
             /\ prev_view' = current_view
             /\ current_view' = SwapView(current_view, nextview)
             /\ debug_info' = [stacks_per_update |-> Len(pushed),
                               glyphs_per_update |-> GlyphsThisUpdate(ss, upd)]
             /\ last' = "update"
             /\ prev_last' = last
             /\ advanced' = Advanced(ss)
             /\ UNCHANGED <<width, height, density, fault>>

\* Game::update_and_get_changes with at most cap trails alive.
\* spawn: rng.gen_bool(self.density)
TickWith(cap) ==
    /\ fault = "none"
    /\ \E spawn \in BOOLEAN, late \in 0..1 :
        /\ density = MaxDensity => spawn
        /\ ~spawn => late = 0
        /\ spawn => Len(stacks) < cap
        /\ IF spawn /\ SpawnFaults(width, height)
           THEN Panic("spawn")
           ELSE \E pushed \in Spawned(spawn, width, height) :
                    \E rs \in AllDraws(LoopStacks(pushed, late)) :
                        TickCompletes(pushed, late, rs)

Tick ==
    TickWith(MaxStacks)

\* Game::resize
Resize ==
    /\ fault = "none"
    /\ \E w \in Widths, h \in Heights :
        /\ width' = w
        /\ height' = h
        /\ current_view' = ViewportNew(w, h)
        /\ stacks' = RetainResize(stacks, w, h)
        /\ changes' = <<>>
        /\ prev_view' = ViewportNew(w, h)
        /\ dropped' = SelectSeq(stacks, LAMBDA s : ~(s.x < w /\ s.min_y < AsI16(h)))
        /\ last' = "resize"
        /\ prev_last' = last
        /\ advanced' = 0
        /\ UNCHANGED <<density, debug_info, fault>>

\* the drawing loop that follows update_and_get_changes (nothing is drawn
\* when the call panicked)
Render ==
    screen' = IF fault' = "none"
              THEN ApplyChanges(screen, changes')
              ELSE screen

\* stdout.execute(Clear(ClearType::All)) after game.resize
ClearScreen ==
    screen' = ScreenBlank(width', height')

\* Game::increase_density
IncreaseDensity ==
    /\ fault = "none"
    /\ density' = IncreaseDensityValue(density)
    /\ UNCHANGED <<width, height, stacks, current_view, debug_info, changes,
                   prev_view, dropped, last, prev_last, advanced, fault>>

\* Game::decrease_density
DecreaseDensity ==
    /\ fault = "none"
    /\ density' = DecreaseDensityValue(density)
    /\ UNCHANGED <<width, height, stacks, current_view, debug_info, changes,
                   prev_view, dropped, last, prev_last, advanced, fault>>

\* wall-clock time passing between two calls
Elapse ==
    /\ fault = "none"
    /\ \E i \in 1..Len(stacks) : ~GatePassed(stacks[i])
    /\ stacks' = [i \in 1..Len(stacks) |-> Age(stacks[i], 1)]
    /\ UNCHANGED <<width, height, current_view, density, debug_info, changes,
                   prev_view, dropped, last, prev_last, advanced, fault>>

\* one pass of the loop of main(): a key, a resize followed by
\* Clear(ClearType::All), or update_and_get_changes followed by the drawing of
\* its changes; Elapse is the time the loop spends in event::poll
Next ==
    \/ Tick /\ Render /\ UNCHANGED <<trailvars, run, diffvars, viewvars>>
    \/ Resize /\ ClearScreen /\ UNCHANGED <<trailvars, run, diffvars, viewvars>>
    \/ IncreaseDensity /\ UNCHANGED <<screen, trailvars, run, diffvars, viewvars>>
    \/ DecreaseDensity /\ UNCHANGED <<screen, trailvars, run, diffvars, viewvars>>
    \/ Elapse /\ UNCHANGED <<screen, trailvars, run, diffvars, viewvars>>

Spec ==
    Init /\ [][Next]_vars

\* ------------------------------------------- one trail from spawn to removal
\* The engine on a viewport that is not resized, with ticks that keep being
\* issued and time that keeps passing.  A tick spawns only into an empty
\* collection, so that the trail under observation is the only one (trails do
\* not act on each other).
LiveInit ==
    /\ GameNew(MaxWidth, MaxHeight)
    /\ ScreenInit
    /\ TrailIdle
    /\ RunIdle
    /\ DiffIdle
    /\ ViewIdle

LiveTick ==
    TickWith(1) /\ Render /\ UNCHANGED <<trailvars, run, diffvars, viewvars>>

LiveElapse ==
    Elapse /\ UNCHANGED <<screen, trailvars, run, diffvars, viewvars>>

LiveNext ==
    \/ LiveTick
    \/ LiveElapse

\* the clock behind Instant::now() never stops, and the loop of main() never
\* stops calling update_and_get_changes: again and again a tick finds
\* something to do (a gate that is passed, or a trail to spawn)
SpecLive ==
    /\ LiveInit
    /\ [][LiveNext]_vars
    /\ WF_vars(LiveElapse)
    /\ []<><<LiveTick>>_vars

\* ----------------------------------------------------- two trails at a time
\* The engine on a viewport that is not resized, at the initial density, with
\* up to MaxPair trails alive; with one spawn column they share their column.
PairInit ==
    /\ GameNew(PairWidth, PairHeight)
    /\ ScreenInit
    /\ TrailIdle
    /\ RunIdle
    /\ DiffIdle
    /\ ViewIdle

PairTick ==
    TickWith(MaxPair) /\ Render /\ UNCHANGED <<trailvars, run, diffvars, viewvars>>

PairElapse ==
    Elapse /\ UNCHANGED <<screen, trailvars, run, diffvars, viewvars>>

PairNext ==
    \/ PairTick
    \/ PairElapse

SpecPair ==
    PairInit /\ [][PairNext]_vars

\* ------------------------------------------------------ GlyphStack on its own
\* a trail as a tick creates it, then update() calls and time passing
TrailInit ==
    /\ GameNew(MaxWidth, MaxHeight)
    /\ \E h \in 0..TrailMaxHeight, x \in SpawnColumns(MaxWidth) :
         \E len \in LengthRange(h), iv \in Intervals, ch \in Chars :
             trail = GlyphStackNew(x, len, iv, ch)
    /\ trail_before = None
    /\ advances = 0
    /\ ScreenInit
    /\ RunIdle
    /\ DiffIdle
    /\ ViewIdle

\* GlyphStack::update
TrailUpdate ==
    /\ GatePassed(trail) => advances < MaxAdvances
    /\ \E r \in Draws(trail) : trail' = GlyphStackUpdate(trail, r)
    /\ trail_before' = Some(trail)
    /\ advances' = IF GatePassed(trail) THEN advances + 1 ELSE advances
    /\ UNCHANGED <<game, screen, run, diffvars, viewvars>>

TrailElapse ==
    /\ ~GatePassed(trail)
    /\ trail' = Age(trail, 1)
    /\ UNCHANGED <<trail_before, advances, game, screen, run, diffvars, viewvars>>

TrailNext ==
    \/ TrailUpdate
    \/ TrailElapse

SpecTrail ==
    TrailInit /\ [][TrailNext]_vars

\* --------------------------------------------------------- density on its own
DensityInit ==
    /\ GameNew(MaxWidth, MaxHeight)
    /\ ScreenInit
    /\ TrailIdle
    /\ RunIdle
    /\ DiffIdle
    /\ ViewIdle

Counted(kind) ==
    /\ ~(run.kind = kind /\ run.count >= MaxRun)
    /\ run' = IF run.kind = kind
              THEN [run EXCEPT !.count = @ + 1]
              ELSE [kind |-> kind, start |-> density, count |-> 1]

DensityNext ==
    \/ IncreaseDensity /\ Counted("increase") /\ UNCHANGED <<screen, trailvars, diffvars, viewvars>>
    \/ DecreaseDensity /\ Counted("decrease") /\ UNCHANGED <<screen, trailvars, diffvars, viewvars>>

SpecDensity ==
    DensityInit /\ [][DensityNext]_vars

\* --------------------------------------------------------- Viewport on its own
\* sizes offered to Viewport::new: small ones, and two whose product does not
\* fit in a u16 (256 * 256 = 65536, 257 * 256 = 65792)
ViewDims ==
    {<<1, 1>>, <<2, 3>>, <<MaxWidth, MaxHeight>>, <<256, 256>>, <<257, 256>>}

ViewCells ==
    {Cell(1, "White"), Cell(2, "Green")}

\* the coordinates used along an axis of n cells: both ends, their
\* neighbours, and the first one outside
ProbeCoords(n) ==
    {c \in {0, 1, n - 2, n - 1, n} : c >= 0}

ViewInit ==
    /\ GameNew(MaxWidth, MaxHeight)
    /\ ScreenInit
    /\ TrailIdle
    /\ RunIdle
    /\ DiffIdle
    /\ \E d \in ViewDims : view = ViewportNew(d[1], d[2])
    /\ writes = <<>>
    /\ view_fault = FALSE

\* Viewport::set
ViewSetCall ==
    /\ ~view_fault
    /\ Len(writes) < MaxWrites
    /\ \E x \in ProbeCoords(view.width), y \in ProbeCoords(view.height),
          c \in ViewCells :
         IF ViewportSetFaults(view, x, y)
         THEN /\ view_fault' = TRUE
              /\ UNCHANGED <<view, writes>>
         ELSE /\ view' = ViewportSet(view, x, y, c)
              /\ writes' = Append(writes, <<x, y, c>>)
              /\ UNCHANGED view_fault
    /\ UNCHANGED <<game, screen, trailvars, run, diffvars>>

ViewNext ==
    ViewSetCall

SpecView ==
    ViewInit /\ [][ViewNext]_vars

\* --------------------------------------------------- diff_viewports on its own
\* the cells a snapshot may hold
DiffCells ==
    {None, Some(Cell(1, "White")), Some(Cell(2, "Green"))}

DiffDims ==
    {d \in (0..DiffMaxArea) \X (0..DiffMaxArea) : d[1] * d[2] <= DiffMaxArea}

\* every snapshot of the given size that Viewport::new and set() can build
Views(w, h) ==
    {[ViewportNew(w, h) EXCEPT !.grid = g] : g \in [1..(w * h) -> DiffCells]}

DiffInit ==
    /\ GameNew(MaxWidth, MaxHeight)
    /\ ScreenInit
    /\ TrailIdle
    /\ RunIdle
    /\ ViewIdle
    /\ \E d \in DiffDims :
         /\ old \in Views(d[1], d[2])
         /\ new \in Views(d[1], d[2])
    /\ out = None

Diff ==
    /\ out = None
    /\ out' = Some(diff_viewports(old, new))
    /\ UNCHANGED <<old, new, game, screen, trailvars, run, viewvars>>

DiffNext ==
    Diff

SpecDiff ==
    DiffInit /\ [][DiffNext]_vars

\* ===================================================================== claims
Coords(v) ==
    (0..(v.width - 1)) \X (0..(v.height - 1))

ViewIsEmpty(v) ==
    \A c \in Coords(v) : ViewportGet(v, c[1], c[2]) = None

IsUpdate(c) == c[1] = "Update"
IsRemove(c) == c[1] = "Remove"
UpdateCount(cs) == Cardinality({i \in 1..Len(cs) : IsUpdate(cs[i])})
RemoveCount(cs) == Cardinality({i \in 1..Len(cs) : IsRemove(cs[i])})

\* the entry the contract asks for at a coordinate that differs
EntryFor(n, x, y) ==
    IF ViewportGet(n, x, y) = None
    THEN ChangeRemove(x, y)
    ELSE ChangeUpdate(x, y, ViewportGet(n, x, y)[1].ch, ViewportGet(n, x, y)[1].color)

Differing(o, n) ==
    {c \in Coords(n) : ViewportGet(o, c[1], c[2]) # ViewportGet(n, c[1], c[2])}

\* C1: diff_viewports(old, new), for snapshots of one size, returns one entry
\* for each coordinate where the two differ and none where they are equal, in
\* row-major order; the entry is Update(x, y, char, colour of the new cell)
\* when the new cell is present and Remove(x, y) when it is absent.
C1_DiffContract ==
    out # None =>
        LET cs == out[1]
        IN  /\ \A i \in 1..Len(cs) :
                 /\ <<cs[i][2], cs[i][3]>> \in Differing(old, new)
                 /\ cs[i] = EntryFor(new, cs[i][2], cs[i][3])
            /\ \A c \in Differing(old, new) :
                 \E i \in 1..Len(cs) : <<cs[i][2], cs[i][3]>> = c
            /\ \A i, j \in 1..Len(cs) :
                 i < j => cs[i][3] * new.width + cs[i][2]
                            < cs[j][3] * new.width + cs[j][2]

\* a 2 x 2 diff with an Update, a Remove and a present cell left out as equal
C1_Witness ==
    /\ out # None
    /\ new.width = 2 /\ new.height = 2
    /\ UpdateCount(out[1]) >= 1
    /\ RemoveCount(out[1]) >= 1
    /\ \E c \in Coords(new) :
         /\ ViewportGet(new, c[1], c[2]) # None
         /\ c \notin Differing(old, new)

\* C2: every Change a tick returns has 0 <= x < width and 0 <= y < height,
\* for the engine's dimensions at that tick.
C2_ChangesInBounds ==
    \A i \in 1..Len(changes) :
        /\ 0 <= changes[i][2] /\ changes[i][2] < width
        /\ 0 <= changes[i][3] /\ changes[i][3] < height

\* a tick on a resized, non-square viewport returned an Update and a Remove
C2_Witness ==
    /\ last = "update"
    /\ width # height
    /\ UpdateCount(changes) >= 1
    /\ RemoveCount(changes) >= 1

\* C3: the Change sequence a tick returns is diff(snapshot current before the
\* tick, snapshot current after it), and the rebuilt snapshot is the current
\* one once the tick has run.
C3_ChangesAreTheDiff ==
    last = "update" =>
        /\ changes = diff_viewports(prev_view, current_view)
        /\ current_view = NextView(stacks, width, height)

\* a tick that started from a non-empty snapshot and changed it
C3_Witness ==
    /\ last = "update"
    /\ ~ViewIsEmpty(prev_view)
    /\ prev_view # current_view
    /\ changes # <<>>

\* C4: no operation fails: for every width >= 0 and height >= 0 given to
\* Game::new or resize and every sequence of calls that follows, a tick runs
\* to completion without reaching a panic, also when the spawn check succeeds.
C4_NoOperationFails ==
    fault = "none"

\* C5: a trail never holds more glyphs than its maximum length, and once the
\* count equals the maximum, an advance that takes effect leaves it unchanged.
C5_BoundedLength ==
    /\ Len(trail.stack) <= trail.length
    /\ (trail_before # None /\ GatePassed(trail_before[1])
          /\ Len(trail_before[1].stack) = trail_before[1].length)
         => Len(trail.stack) = Len(trail_before[1].stack)

\* an advance took effect on a trail of two or more glyphs that was full
C5_Witness ==
    /\ trail_before # None
    /\ GatePassed(trail_before[1])
    /\ trail_before[1].length >= 2
    /\ Len(trail_before[1].stack) = trail_before[1].length

\* the rows a trail's glyphs occupy: head row max_y down to max_y - (count - 1)
Rows(s) ==
    {s.max_y - i : i \in 0..(Len(s.stack) - 1)}

Intersects(s, h) ==
    \E y \in Rows(s) : 0 <= y /\ y < h

\* C6: after a tick a trail is in the active set if and only if the rows its
\* glyphs occupy intersect [0, height); a trail whose rows all lie at or below
\* row height is removed in the tick in which that becomes true.
C6_ActiveIffVisible ==
    last = "update" =>
        /\ \A i \in 1..Len(stacks) : Intersects(stacks[i], height)
        /\ \A i \in 1..Len(dropped) :
             /\ ~Intersects(dropped[i], height)
             /\ \A y \in Rows(dropped[i]) : y >= height

\* a tick removed a trail that had grown to two glyphs or more
C6_Witness ==
    /\ last = "update"
    /\ \E i \in 1..Len(dropped) : Len(dropped[i].stack) >= 2

\* C7: after resize(w, h) no active trail has column x >= w and the current
\* snapshot is empty; the snapshots later ticks build are w wide and hold no
\* cell at a column >= w.
C7_ResizeDropsColumns ==
    /\ \A i \in 1..Len(stacks) : stacks[i].x < width
    /\ current_view.width = width
    /\ current_view.height = height
    /\ Len(current_view.grid) = width * height
    /\ last = "resize" => ViewIsEmpty(current_view)
    /\ \A x \in 0..MaxWidth, y \in 0..MaxHeight :
         ViewportGet(current_view, x, y) # None => x < width

\* a resize removed a trail whose column is at or beyond the new width
C7_Witness ==
    /\ last = "resize"
    /\ \E i \in 1..Len(dropped) :
         dropped[i].x >= width /\ dropped[i].min_y < height

\* C8: density stays within [0.1, 1.0] under any sequence of adjustments;
\* from 0.5, ten consecutive increases leave it at 1.0 and ten consecutive
\* decreases leave it at 0.1 (density in tenths).
C8_DensityClamped ==
    /\ MinDensity <= density /\ density <= MaxDensity
    /\ (run.kind = "increase" /\ run.start = InitialDensity /\ run.count >= 10)
         => density = MaxDensity
    /\ (run.kind = "decrease" /\ run.start = InitialDensity /\ run.count >= 10)
         => density = MinDensity

\* ten consecutive increases have run from 0.5
C8_Witness ==
    /\ run.kind = "increase"
    /\ run.start = InitialDensity
    /\ run.count = 10

\* C9: a tick that starts from an empty current snapshot and in which the
\* spawn fires returns at least one Update and no Remove.  A tick whose spawn
\* fired and that ended in a panic returned nothing.
C9_SpawnTickOnlySets ==
    /\ (last = "update" /\ ViewIsEmpty(prev_view) /\ debug_info.stacks_per_update = 1)
         => (UpdateCount(changes) >= 1 /\ RemoveCount(changes) = 0)
    /\ fault = "spawn" => ~ViewIsEmpty(current_view)

\* the part of C9 about the ticks that return: started from an empty snapshot
\* with the spawn fired, they return at least one Update and no Remove
C9_CompletedSpawnTick ==
    (last = "update" /\ ViewIsEmpty(prev_view) /\ debug_info.stacks_per_update = 1)
        => (UpdateCount(changes) >= 1 /\ RemoveCount(changes) = 0)

\* C10 as stated: a fresh trail of maximum length 3 holds, after 5 advances
\* that took effect, exactly 3 glyphs and has min_y = 2.
C10_FiveAdvancesAsStated ==
    (trail.length = 3 /\ advances = 5)
        => (Len(trail.stack) = 3 /\ trail.min_y = 2)

\* C10 amended: a fresh trail of maximum length 3 holds, after 5 advances that
\* took effect, exactly 3 glyphs and has min_y = 3 (the seeded head and five
\* pushes make six glyphs, three of which were dropped).
C10_FiveAdvances ==
    (trail.length = 3 /\ advances = 5)
        => (Len(trail.stack) = 3 /\ trail.min_y = 3)

\* a trail of maximum length 3 has been advanced 5 times
C10_Witness ==
    trail.length = 3 /\ advances = 5

\* --------------------------------------------------------------------- C11
\* the last call was a completed tick that spawned no trail, advanced none
\* and removed none
QuietTick ==
    /\ last = "update"
    /\ debug_info.stacks_per_update = 0
    /\ advanced = 0
    /\ dropped = <<>>

\* C11, as stated: the diff of the current snapshot with itself is empty, and
\* a tick that spawns, advances and removes no trail returns no changes.
C11_QuietTickAsStated ==
    /\ diff_viewports(current_view, current_view) = <<>>
    /\ QuietTick => changes = <<>>

\* C11, amended: the diff of the current snapshot with itself is empty, and a
\* tick that spawns, advances and removes no trail returns no changes when
\* the snapshot it started from was built by Game::new or by a tick; after a
\* resize the snapshot is blank and the tick returns the surviving trails.
C11_QuietTickNoChanges ==
    /\ diff_viewports(current_view, current_view) = <<>>
    /\ QuietTick /\ prev_last # "resize" => changes = <<>>

\* a quiet tick that follows a tick, with a trail on the snapshot
C11_Witness ==
    /\ QuietTick
    /\ prev_last = "update"
    /\ stacks # <<>>
    /\ ~ViewIsEmpty(current_view)
    /\ changes = <<>>

\* --------------------------------------------------------------------- C12
\* C12: with ticks that keep being issued, time that keeps passing and no
\* resize, a trail that is in the active collection is eventually out of it.
C12_TrailEventuallyRemoved ==
    (stacks # <<>>) ~> (stacks = <<>>)

\* a tick has just removed the trail, whose tail left the viewport
C12_Witness ==
    /\ last = "update"
    /\ stacks = <<>>
    /\ dropped # <<>>
    /\ dropped[1].min_y >= height
    /\ dropped[1].max_y > dropped[1].min_y

\* --------------------------------------------------------------------- C13
\* C13: an update() call made when less than the trail's interval has
\* elapsed since its last advance leaves the column, both offsets, the glyphs
\* (characters and colours), the maximum length and the interval as they
\* were, and does not restart the clock (last_update is not moved forward:
\* the elapsed time has not gone down).
C13_GatedUpdateIsNoOp ==
    trail_before # None /\ trail_before[1].elapsed < trail_before[1].update_interval
        => /\ trail.x = trail_before[1].x
           /\ trail.min_y = trail_before[1].min_y
           /\ trail.max_y = trail_before[1].max_y
           /\ trail.stack = trail_before[1].stack
           /\ trail.length = trail_before[1].length
           /\ trail.update_interval = trail_before[1].update_interval
           /\ trail.elapsed >= trail_before[1].elapsed

\* update() has just been called too early on a trail of two glyphs or more
C13_Witness ==
    /\ trail_before # None
    /\ trail_before[1].elapsed < trail_before[1].update_interval
    /\ trail_before[1].elapsed > 0
    /\ Len(trail_before[1].stack) >= 2
    /\ trail = trail_before[1]

\* --------------------------------------------------------------------- C14
\* the colours of a glyph sequence read front to back: one White, then
\* Greens, then DarkGreens
IsGradient(st) ==
    /\ st[1].color = "White"
    /\ \A i \in 2..Len(st) : st[i].color # "White"
    /\ \A i, j \in 2..Len(st) :
         i < j /\ st[i].color = "DarkGreen" => st[j].color = "DarkGreen"

\* C14: in every reachable trail state the front glyph is the only White
\* one, the Green glyphs follow it, and every glyph behind them is DarkGreen:
\* no Green glyph sits behind a DarkGreen one.
C14_ColourGradient ==
    IsGradient(trail.stack)

\* --------------------------------------------------------------------- C15
\* the j-th smallest member of a set of indices
Nth(K, j) ==
    CHOOSE e \in K : Cardinality({d \in K : d < e}) = j - 1

\* s2 is the trail s one step later: same column, length and interval, and a
\* head that stayed or went down one row
Continues(s, s2) ==
    /\ s2.x = s.x
    /\ s2.length = s.length
    /\ s2.update_interval = s.update_interval
    /\ s2.max_y \in {s.max_y, I16Inc(s.max_y)}

\* a trail in the tick that spawned it (update() may already have run once)
Fresh(s) ==
    /\ s.min_y <= 1
    /\ s.max_y <= 1
    /\ Len(s.stack) <= 2

\* the collection ss2 is made of trails of ss, in their order and in their
\* columns, followed by k fresh trails
KeepsColumns(ss, ss2, k) ==
    /\ k <= Len(ss2)
    /\ \A j \in (Len(ss2) - k + 1)..Len(ss2) : Fresh(ss2[j])
    /\ \E K \in SUBSET (1..Len(ss)) :
         /\ Cardinality(K) = Len(ss2) - k
         /\ \A j \in 1..(Len(ss2) - k) : Continues(ss[Nth(K, j)], ss2[j])

\* C15: a step adds at most one trail and leaves every other trail of the
\* collection in its column (or removes it), and every trail's column is even
\* and inside 0 <= x < width.
C15_ColumnsEvenAndFixed ==
    [][/\ \E k \in 0..1 : KeepsColumns(stacks, stacks', k)
       /\ \A i \in 1..Len(stacks') :
            /\ stacks'[i].x % 2 = 0
            /\ stacks'[i].x >= 0
            /\ stacks'[i].x < width']_vars

\* a trail spawned in column 2 that has advanced and has lived through a
\* resize
C15_Witness ==
    /\ last = "resize"
    /\ stacks # <<>>
    /\ stacks[1].x = 2
    /\ stacks[1].max_y >= 2

\* --------------------------------------------------------------------- C16
\* the trails of ss that have a glyph at (x, y)
Covering(ss, x, y) ==
    {k \in 1..Len(ss) :
        /\ ss[k].x = x
        /\ \E i \in 0..(Len(ss[k].stack) - 1) : ss[k].max_y - i = y}

\* the glyph of the last trail of the collection that covers (x, y)
TopGlyph(ss, x, y) ==
    LET k == CHOOSE c \in Covering(ss, x, y) :
                 \A d \in Covering(ss, x, y) : d <= c
    IN  ss[k].stack[ss[k].max_y - y + 1]

C17_TelemetryCounts ==
    last = "update" =>
        /\ debug_info.stacks_per_update \in {0, 1}
        /\ debug_info.glyphs_per_update = advanced

\* --------------------------------------------------------------------- C18
\* the cell last written at (x, y) by the set() calls made so far
LastWrite(ws, x, y) ==
    LET at == {i \in 1..Len(ws) : ws[i][1] = x /\ ws[i][2] = y}
    IN  IF at = {}
        THEN None
        ELSE Some(ws[CHOOSE i \in at : \A j \in at : j <= i][3])

\* no set() call has panicked, the grid has width * height cells, and get
\* returns at every coordinate inside the viewport the cell last set there
\* (blank where none was set)
IsRectangular ==
    /\ ~view_fault
    /\ Len(view.grid) = view.width * view.height
    /\ \A x \in ProbeCoords(view.width), y \in ProbeCoords(view.height) :
         x < view.width /\ y < view.height
             => ViewportGet(view, x, y) = LastWrite(writes, x, y)

\* C18: for every width and height a Viewport holds width * height cells,
\* and a set at a coordinate inside it does not panic, is read back by get
\* at that coordinate, and changes the cell of no other coordinate.
C18_ViewportIsRectangular ==
    IsRectangular

\* the same for the sizes whose product fits in a u16
C18_RectangularWithoutOverflow ==
    view.width * view.height < TwoPow16 => IsRectangular

\* --------------------------------------------------------------------- C19
\* the terminal has the size of the engine and shows, cell for cell, the
\* current snapshot
ScreenShowsSnapshot ==
    /\ DOMAIN screen = (0..(width - 1)) \X (0..(height - 1))
    /\ \A p \in DOMAIN screen :
         screen[p] = ViewportGet(current_view, p[1], p[2])

\* C19: a screen that starts blank, is blanked on every resize and applies
\* the changes of every tick in order (debug overlay off) shows after every
\* tick exactly the engine's current snapshot, whatever ticks, resizes and
\* density adjustments came before.
C19_ScreenFollowsEngine ==
    last = "update" => ScreenShowsSnapshot

\* a tick after a density adjustment whose changes blanked a cell and wrote
\* another one, on a screen that still shows a glyph
C19_Witness ==
    /\ last = "update"
    /\ density # InitialDensity
    /\ RemoveCount(changes) > 0
    /\ UpdateCount(changes) > 0
    /\ \E p \in DOMAIN screen : screen[p] # None

\* --------------------------------------------------------------------- C20
\* C20: in every trail state min_y >= 0 and max_y - min_y + 1 is the number
\* of glyphs held (min_y is the row of the tail glyph, max_y the row of the
\* head); an update() call lowers neither offset, and raises max_y by exactly
\* one when it passes the gate (and not at all when it does not).
C20_OffsetsTrackGlyphs ==
    /\ trail.min_y >= 0
    /\ trail.max_y - trail.min_y + 1 = Len(trail.stack)
    /\ trail_before # None =>
         /\ trail.min_y >= trail_before[1].min_y
         /\ trail.max_y >= trail_before[1].max_y
         /\ trail.max_y =
              IF trail_before[1].elapsed >= trail_before[1].update_interval
              THEN trail_before[1].max_y + 1
              ELSE trail_before[1].max_y

\* an update() call has just pushed a head and dropped the tail of a trail of
\* three glyphs
C20_Witness ==
    /\ trail_before # None
    /\ trail_before[1].elapsed >= trail_before[1].update_interval
    /\ trail.min_y = trail_before[1].min_y + 1
    /\ trail.min_y >= 2
    /\ Len(trail.stack) = 3
====
